---------------------------- MODULE Spec2Model ----------------------------
(***************************************************************************)
(* The material matching pipeline of app.py: the text helpers              *)
(* (normalize_material_text, expand_synonyms, extract_numbers_with_units), *)
(* the line parser parse_materials_text, the scorer and ranker             *)
(* match_material, the pricebook cache fetch_materials_pricebook and the   *)
(* /poll handler that ties them together.                                  *)
(*                                                                         *)
(* A text is a sequence of characters, each a one-character string.  The   *)
(* four characters of line 117 that are not ASCII are written "RDQUO",     *)
(* "LDQUO", "ENDASH" and "EMDASH".                                         *)
(*                                                                         *)
(* Scores are held in units of 1/Scale; the one non-terminating fraction,  *)
(* the ratio min/max of numeric_proximity_score, is truncated to that      *)
(* resolution.                                                             *)
(***************************************************************************)
EXTENDS Integers, Sequences, FiniteSets, TLC

VARIABLES
    \* ---- the text helpers applied on their own
    text,             \* the argument
    normalized,       \* normalize_material_text(text)
    renormalized,     \* normalize_material_text(normalized)
    expanded,         \* expand_synonyms(text)
    \* ---- the process
    clock,            \* time.time(), in units of cache_duration
    pricebook,        \* the remote pricebook: its pages, each a list of items
    heap,             \* the list objects: heap[r] is the content of list r
    materials_cache,  \* the global of line 23: data (a list), last_updated
    fetch,            \* the frame of fetch_materials_pricebook in each thread
    poll,             \* the frame of poll_endpoint from line 378 on
    parse,            \* the frame of parse_materials_text
    match             \* the frame of match_material

textVars == <<text, normalized, renormalized, expanded>>

processVars == <<clock, pricebook, heap, materials_cache, fetch, poll, parse, match>>

vars == <<textVars, processVars>>

\* A value no text equals: the helper has not run yet.
NoText == <<"NONE">>

-----------------------------------------------------------------------------
(* Characters and the classes the regular expressions use.                 *)

LowerCase == <<"a","b","c","d","e","f","g","h","i","j","k","l","m",
               "n","o","p","q","r","s","t","u","v","w","x","y","z">>

UpperCase == <<"A","B","C","D","E","F","G","H","I","J","K","L","M",
               "N","O","P","Q","R","S","T","U","V","W","X","Y","Z">>

Digit == {"0","1","2","3","4","5","6","7","8","9"}

Letter == {LowerCase[i] : i \in 1..26} \cup {UpperCase[i] : i \in 1..26}

\* \d
IsDigit(c) == c \in Digit

WordChar == Digit \cup Letter \cup {"_"}

WhiteSpace == {" ", "\n", "\t"}

\* \w
IsWordChar(c) == c \in WordChar

\* \s, and the characters str.strip() and str.split() remove
IsSpace(c) == c \in WhiteSpace

\* str.lower() of each capital letter
LowerOf == [c \in {UpperCase[i] : i \in 1..26} |->
               LowerCase[CHOOSE i \in 1..26 : UpperCase[i] = c]]

\* str.lower() of one character
Lower(c) == IF c \in DOMAIN LowerOf THEN LowerOf[c] ELSE c

\* str.lower()
LowerText(s) == [i \in 1..Len(s) |-> Lower(s[i])]

\* Whether w occurs in s at position i.
MatchAt(s, i, w) ==
    /\ i + Len(w) - 1 <= Len(s)
    /\ \A k \in 1..Len(w) : s[i + k - 1] = w[k]

\* The same under re.IGNORECASE.
MatchAtCI(s, i, w) ==
    /\ i + Len(w) - 1 <= Len(s)
    /\ \A k \in 1..Len(w) : Lower(s[i + k - 1]) = Lower(w[k])

\* \b between positions i-1 and i of s.
WordBoundary(s, i) ==
    LET before == i > 1 /\ i - 1 <= Len(s) /\ IsWordChar(s[i - 1])
        after  == i >= 1 /\ i <= Len(s) /\ IsWordChar(s[i])
    IN  before # after

\* str.replace(old, new): left to right, occurrences that do not overlap.
RECURSIVE ReplaceFrom(_, _, _, _)
ReplaceFrom(s, i, old, new) ==
    IF i > Len(s) THEN <<>>
    ELSE IF MatchAt(s, i, old)
         THEN new \o ReplaceFrom(s, i + Len(old), old, new)
         ELSE <<s[i]>> \o ReplaceFrom(s, i + 1, old, new)

Replace(s, old, new) == ReplaceFrom(s, 1, old, new)

\* re.sub(re.escape(old), new, s, flags=re.IGNORECASE)
RECURSIVE SubCIFrom(_, _, _, _)
SubCIFrom(s, i, old, new) ==
    IF i > Len(s) THEN <<>>
    ELSE IF MatchAtCI(s, i, old)
         THEN new \o SubCIFrom(s, i + Len(old), old, new)
         ELSE <<s[i]>> \o SubCIFrom(s, i + 1, old, new)

\* The first position at or after i of s that holds no white space.
RECURSIVE SpaceEnd(_, _)
SpaceEnd(s, i) ==
    IF i <= Len(s) /\ IsSpace(s[i]) THEN SpaceEnd(s, i + 1) ELSE i

\* The first position at or after i of s that holds no digit.
RECURSIVE DigitsEnd(_, _)
DigitsEnd(s, i) ==
    IF i <= Len(s) /\ IsDigit(s[i]) THEN DigitsEnd(s, i + 1) ELSE i

\* str.strip()
Strip(s) ==
    LET keep == {i \in 1..Len(s) : ~IsSpace(s[i])}
    IN  IF keep = {} THEN <<>>
        ELSE LET lo == CHOOSE i \in keep : \A j \in keep : i <= j
                 hi == CHOOSE i \in keep : \A j \in keep : i >= j
             IN  SubSeq(s, lo, hi)

\* re.sub(r'\s+', ' ', s)
RECURSIVE CollapseSpacesFrom(_, _)
CollapseSpacesFrom(s, i) ==
    IF i > Len(s) THEN <<>>
    ELSE IF IsSpace(s[i])
         THEN <<" ">> \o CollapseSpacesFrom(s, SpaceEnd(s, i))
         ELSE <<s[i]>> \o CollapseSpacesFrom(s, i + 1)

\* str.split(): the maximal runs of characters that are not white space.
RECURSIVE SplitFrom(_, _, _)
SplitFrom(s, i, word) ==
    IF i > Len(s) THEN (IF word = <<>> THEN <<>> ELSE <<word>>)
    ELSE IF IsSpace(s[i])
         THEN (IF word = <<>> THEN <<>> ELSE <<word>>) \o SplitFrom(s, i + 1, <<>>)
         ELSE SplitFrom(s, i + 1, Append(word, s[i]))

Split(s) == SplitFrom(s, 1, <<>>)

\* a in b, for two strings
Contains(b, a) == \E i \in 1..(Len(b) + 1) : MatchAt(b, i, a)

\* The elements of a sequence.
Range(f) == {f[i] : i \in DOMAIN f}

-----------------------------------------------------------------------------
(* normalize_material_text                                                 *)

\* The alternatives of the pattern of line 121, in the order it tries them
\* (pcs? is pcs, then pc).
FillerWords == << <<"r", "o", "l", "l">>, <<"b", "a", "g">>, <<"p", "c", "s">>, <<"p", "c">>, <<"e", "a", "c", "h">>, <<"e", "a">>,
                  <<"u", "n", "i", "t">>, <<"p", "i", "e", "c", "e">>, <<"p", "e", "r">> >>

\* The length of the match of \b(roll|bag|...)\b at position i, 0 for none.
FillerMatchLen(s, i) ==
    LET hits == {k \in 1..Len(FillerWords) :
                    /\ MatchAt(s, i, FillerWords[k])
                    /\ WordBoundary(s, i + Len(FillerWords[k]))}
    IN  IF ~WordBoundary(s, i) \/ hits = {} THEN 0
        ELSE Len(FillerWords[CHOOSE k \in hits : \A j \in hits : k <= j])

\* re.sub(r'\b(roll|bag|pcs?|each|ea|unit|piece|per)\b', '', s)
RECURSIVE RemoveFillersFrom(_, _)
RemoveFillersFrom(s, i) ==
    IF i > Len(s) THEN <<>>
    ELSE IF FillerMatchLen(s, i) > 0
         THEN RemoveFillersFrom(s, i + FillerMatchLen(s, i))
         ELSE <<s[i]>> \o RemoveFillersFrom(s, i + 1)

RemoveFillers(s) == RemoveFillersFrom(s, 1)

\* Line 117: curly quotes and long dashes to ASCII.
AsciiPunctuation(s) ==
    Replace(Replace(Replace(Replace(s, <<"RDQUO">>, <<"\"">>),
                            <<"LDQUO">>, <<"\"">>),
                    <<"ENDASH">>, <<"-">>),
            <<"EMDASH">>, <<"-">>)

\* Lines 118-119: the unit spellings, one replace after the other.
UnifyUnits(s) ==
    LET inches == Replace(Replace(Replace(s, <<"i", "n", "c", "h">>, <<"i", "n">>),
                                  <<"i", "n", ".">>, <<"i", "n">>),
                          <<"\"">>, <<"i", "n">>)
    IN  Replace(Replace(inches, <<"f", "e", "e", "t">>, <<"f", "t">>), <<"f", "t", ".">>, <<"f", "t">>)

normalize_material_text(s) ==
    Strip(CollapseSpacesFrom(RemoveFillers(UnifyUnits(AsciiPunctuation(LowerText(s)))), 1))

-----------------------------------------------------------------------------
(* expand_synonyms                                                         *)

\* SYNONYMS, in the order of the dictionary: each key and the first phrase
\* of its list, the only one expand_synonyms uses.
SYNONYMS == <<
    [key |-> <<"f", "l", "e", "x">>,            first |-> <<"f", "l", "e", "x", " ", "d", "u", "c", "t">>],
    [key |-> <<"s", "i", "l", "v", "e", "r", "t", "a", "p", "e">>,      first |-> <<"f", "o", "i", "l", " ", "t", "a", "p", "e">>],
    [key |-> <<"i", "n", "s", "u", "l", "a", "t", "i", "o", "n", " ", "w", "r", "a", "p">>, first |-> <<"d", "u", "c", "t", " ", "w", "r", "a", "p">>],
    [key |-> <<"w", "r", "a", "p">>,            first |-> <<"d", "u", "c", "t", " ", "w", "r", "a", "p">>],
    [key |-> <<"9", "0">>,              first |-> <<"e", "l", "b", "o", "w">>],
    [key |-> <<"e", "l", "b", "o", "w">>,           first |-> <<"9", "0">>] >>

\* The loop of lines 127-133 from the k-th entry on.
RECURSIVE ExpandFrom(_, _)
ExpandFrom(out, k) ==
    IF k > Len(SYNONYMS) THEN out
    ELSE ExpandFrom(SubCIFrom(out, 1, SYNONYMS[k].key, SYNONYMS[k].first), k + 1)

expand_synonyms(s) == ExpandFrom(s, 1)

-----------------------------------------------------------------------------
(* extract_numbers_with_units                                              *)

\* The unit alternatives of the pattern of line 187, in the order it tries
\* them.
ExtractUnits == << <<"i", "n">>, <<"f", "t">>, <<"i", "n", "c", "h">>, <<"i", "n", "c", "h", "e", "s">>, <<"f", "e", "e", "t">> >>

\* The end of \d+(?:\.\d+)? started at the digit at position i.
NumberEnd(s, i) ==
    LET j == DigitsEnd(s, i)
    IN  IF j + 1 <= Len(s) /\ s[j] = "." /\ IsDigit(s[j + 1])
        THEN DigitsEnd(s, j + 1)
        ELSE j

\* The first of units (by position in the sequence) that occurs in s at
\* position k, and that a \b follows where the pattern asks for one; 0 for
\* none.
FirstUnitAt(s, k, units, bounded) ==
    LET hits == {u \in 1..Len(units) :
                    /\ MatchAtCI(s, k, units[u])
                    /\ bounded => WordBoundary(s, k + Len(units[u]))}
    IN  IF hits = {} THEN 0 ELSE CHOOSE u \in hits : \A v \in hits : u <= v

\* Line 191: the captured unit in its short spelling.
ShortUnit(unit) ==
    Replace(Replace(Replace(unit, <<"i", "n", "c", "h", "e", "s">>, <<"i", "n">>), <<"i", "n", "c", "h">>, <<"i", "n">>),
            <<"f", "e", "e", "t">>, <<"f", "t">>)

\* re.findall of line 187 from position i on, each match as line 192 or 195
\* writes it.
RECURSIVE ExtractFrom(_, _)
ExtractFrom(t, i) ==
    IF i > Len(t) THEN <<>>
    ELSE IF ~IsDigit(t[i]) THEN ExtractFrom(t, i + 1)
    ELSE LET j   == NumberEnd(t, i)
             num == SubSeq(t, i, j - 1)
             k   == SpaceEnd(t, j)
             u   == FirstUnitAt(t, k, ExtractUnits, FALSE)
         IN  IF u = 0
             THEN <<num>> \o ExtractFrom(t, j)
             ELSE <<num \o ShortUnit(ExtractUnits[u])>>
                      \o ExtractFrom(t, k + Len(ExtractUnits[u]))

extract_numbers_with_units(s) ==
    IF s = <<>> THEN <<>>
    ELSE ExtractFrom(Replace(LowerText(s), <<"\"">>, <<"i", "n">>), 1)

-----------------------------------------------------------------------------
(* parse_materials_text                                                    *)

\* int() of a run of digits.
DigitValue(c) == CHOOSE n \in 0..9 : <<"0","1","2","3","4","5","6","7","8","9">>[n + 1] = c

RECURSIVE IntOf(_)
IntOf(digits) ==
    IF digits = <<>> THEN 0
    ELSE 10 * IntOf(SubSeq(digits, 1, Len(digits) - 1)) + DigitValue(digits[Len(digits)])

\* str.splitlines() of a text whose only line break is \n.
RECURSIVE SplitLinesFrom(_, _, _)
SplitLinesFrom(s, i, line) ==
    IF i > Len(s) THEN (IF line = <<>> THEN <<>> ELSE <<line>>)
    ELSE IF s[i] = "\n"
         THEN <<line>> \o SplitLinesFrom(s, i + 1, <<>>)
         ELSE SplitLinesFrom(s, i + 1, Append(line, s[i]))

SplitLines(s) == SplitLinesFrom(s, 1, <<>>)

\* The separators of the explicit-count pattern of line 154.
CountSeparators == {"-", "x", "X"}

\* Whether re.match(r"^(\d+)\s*[-xX]\s*(.+)$", line) matches.
ExplicitCountMatches(line) ==
    LET j == DigitsEnd(line, 1)
        k == SpaceEnd(line, j)
    IN  /\ j > 1
        /\ k <= Len(line)
        /\ line[k] \in CountSeparators
        /\ k + 1 <= Len(line)

\* Lines 156-158: the entry of a line of that shape.
ExplicitCountEntry(line) ==
    LET j == DigitsEnd(line, 1)
        k == SpaceEnd(line, j)
    IN  [quantity    |-> IntOf(SubSeq(line, 1, j - 1)),
         description |-> Strip(SubSeq(line, k + 1, Len(line)))]

\* The unit alternatives of the pattern of line 162, in the order it tries
\* them.
MeasureUnits == << <<"i", "n">>, <<"f", "t">>, <<"\"">>, <<"i", "n", "c", "h">>, <<"i", "n", "c", "h", "e", "s">>, <<"f", "e", "e", "t">> >>

\* The unit the pattern of line 162 finds after the leading number, 0 for
\* none: the first alternative that a \b follows.
MeasureUnit(line) ==
    IF line = <<>> \/ ~IsDigit(line[1]) THEN 0
    ELSE FirstUnitAt(line, SpaceEnd(line, NumberEnd(line, 1)), MeasureUnits, TRUE)

\* Lines 164-171: the entry of a line that starts with a measurement.
MeasureEntry(line) ==
    LET k          == SpaceEnd(line, NumberEnd(line, 1))
        e          == k + Len(MeasureUnits[MeasureUnit(line)])
        size_token == Strip(SubSeq(line, 1, e - 1))
        remainder  == Strip(SubSeq(line, e, Len(line)))
    IN  [quantity    |-> 1,
         description |-> IF remainder # <<>>
                         THEN size_token \o <<" ">> \o remainder
                         ELSE size_token]

\* Line 175: the entry of any other line.
FallbackEntry(line) == [quantity |-> 1, description |-> line]

\* Lines 153-175 for one line that is not blank: the first shape that fits.
LineEntry(line) ==
    IF ExplicitCountMatches(line) THEN ExplicitCountEntry(line)
    ELSE IF MeasureUnit(line) # 0 THEN MeasureEntry(line)
    ELSE FallbackEntry(line)

-----------------------------------------------------------------------------
(* match_material: the pieces of a field's score                           *)

\* The resolution of a score: 1.0 is Scale.  Fuzzy ratios are percentages
\* (line 252); the weights need two more decimals.
Scale == 100 * 100

\* Line 268, in hundredths: 0.50, 0.25 and 0.20.
FuzzyWeight == 50
SemanticWeight == 25
NumericWeight == 20

\* Line 258, in units of 1/Scale: 0.10 for each equal pair of tokens, 0.05
\* for each pair where one token is part of the other.
ExactMatchBonus == 1000
PartialMatchBonus == 500

\* Line 229: 0.2 times the best ratio.
ProximityWeight == 2000

\* Lines 264 and 266: +0.6 and -0.3.
CategoryBoost == 6000
CategoryPenalty == 3000

\* Line 288: 0.55.
ConfidenceThreshold == 5500

\* Line 281: scored_matches[:3].
TopCount == 3

Min(a, b) == IF a <= b THEN a ELSE b
Max(a, b) == IF a >= b THEN a ELSE b

\* Lines 205-210, in the order of the dictionary.
categories == <<
    [cat |-> "flex",  keys |-> { <<"f", "l", "e", "x">>, <<"f", "l", "e", "x", "i", "b", "l", "e">>, <<"d", "u", "c", "t">> }],
    [cat |-> "elbow", keys |-> { <<"e", "l", "b", "o", "w">>, <<"9", "0">> }],
    [cat |-> "wrap",  keys |-> { <<"w", "r", "a", "p">>, <<"i", "n", "s", "u", "l", "a", "t", "i", "o", "n">> }],
    [cat |-> "tape",  keys |-> { <<"t", "a", "p", "e">>, <<"f", "o", "i", "l">> }] >>

\* Line 265: the tokens of another trade.
BadTokens == { <<"w", "i", "r", "e">>, <<"b", "r", "e", "a", "k", "e", "r">>, <<"m", "o", "t", "o", "r">>, <<"c", "i", "r", "c", "u", "i", "t">> }

\* Line 212: the categories one of whose keys is a token.
CategoriesOf(tokens) ==
    {categories[c].cat : c \in {d \in 1..Len(categories) : categories[d].keys \cap tokens # {}}}

RECURSIVE Pow10(_)
Pow10(n) == IF n = 0 THEN 1 ELSE 10 * Pow10(n - 1)

\* Lines 219 and 224: float() of the digits and dots of a token, as the
\* fraction num/den; ok is FALSE where float() raises.
FloatOf(token) ==
    LET chars  == SelectSeq(token, LAMBDA c : IsDigit(c) \/ c = ".")
        dots   == {i \in 1..Len(chars) : chars[i] = "."}
        digits == SelectSeq(chars, IsDigit)
    IN  [ok  |-> Cardinality(dots) <= 1 /\ digits # <<>>,
         num |-> IntOf(digits),
         den |-> IF Cardinality(dots) = 1
                 THEN Pow10(Len(chars) - (CHOOSE i \in dots : TRUE))
                 ELSE 1]

\* Line 225 for two tokens, times the weight of line 229; the pairs whose
\* float() or division raises are left out (lines 220 and 227).
ProximityRatios(desc_nums, field_nums) ==
    {LET a == FloatOf(desc_nums[i])
         b == FloatOf(field_nums[j])
         x == a.num * b.den
         y == b.num * a.den
     IN  (ProximityWeight * Min(x, y)) \div Max(x, y) :
        <<i, j>> \in {p \in (1..Len(desc_nums)) \X (1..Len(field_nums)) :
                        /\ FloatOf(desc_nums[p[1]]).ok
                        /\ FloatOf(field_nums[p[2]]).ok
                        /\ (FloatOf(desc_nums[p[1]]).num # 0 \/ FloatOf(field_nums[p[2]]).num # 0)}}

\* Lines 214-229: the best ratio of any pair, starting from 0.
numeric_proximity_score(desc_nums, field_nums) ==
    LET ratios == ProximityRatios(desc_nums, field_nums) \cup {0}
    IN  CHOOSE r \in ratios : \A q \in ratios : r >= q

\* Line 255: the pairs of equal tokens.
NumericMatches(desc_nums, field_nums) ==
    Cardinality({p \in (1..Len(desc_nums)) \X (1..Len(field_nums)) :
                    desc_nums[p[1]] = field_nums[p[2]]})

\* Line 256: the pairs where one token is part of the other.
NumericPartial(desc_nums, field_nums) ==
    Cardinality({p \in (1..Len(desc_nums)) \X (1..Len(field_nums)) :
                    \/ Contains(field_nums[p[2]], desc_nums[p[1]])
                    \/ Contains(desc_nums[p[1]], field_nums[p[2]])})

\* Line 258.
NumericScore(desc_nums, field_nums) ==
    ExactMatchBonus * NumericMatches(desc_nums, field_nums)
        + PartialMatchBonus * NumericPartial(desc_nums, field_nums)
        + numeric_proximity_score(desc_nums, field_nums)

\* Lines 263-266 for one category.
CategoryScore(c, desc_cats, field_tokens) ==
    IF categories[c].cat \in desc_cats /\ categories[c].keys \cap field_tokens # {}
    THEN CategoryBoost
    ELSE IF categories[c].cat \in desc_cats /\ BadTokens \cap field_tokens # {}
    THEN -CategoryPenalty
    ELSE 0

\* Lines 261-266: the sum over the categories.
RECURSIVE SemanticFrom(_, _, _)
SemanticFrom(c, desc_cats, field_tokens) ==
    IF c > Len(categories) THEN 0
    ELSE CategoryScore(c, desc_cats, field_tokens) + SemanticFrom(c + 1, desc_cats, field_tokens)

SemanticScore(desc_cats, field_tokens) == SemanticFrom(1, desc_cats, field_tokens)

\* Lines 249-252: the larger of the two ratios, a percentage, as a score.
FuzzyScore(ratio) == ratio * (Scale \div 100)

\* Line 268.
WeightedSum(fuzzy, semantic, numeric) ==
    (FuzzyWeight * fuzzy + SemanticWeight * semantic + NumericWeight * numeric) \div 100

\* Line 269 left out: the weighted sum as it is.
Unclamped(total) == total

\* Line 269.
ClampTotal(total) == Min(total, Scale)

\* Lines 201-212: what match_material computes from the description.
DescFeatures(description) ==
    LET desc_norm == normalize_material_text(expand_synonyms(description))
    IN  [desc_norm     |-> desc_norm,
         desc_numbers  |-> extract_numbers_with_units(desc_norm),
         desc_category |-> CategoriesOf(Range(Split(desc_norm)))]

\* Lines 243-246: what it computes from a field that is not empty.
FieldFeatures(field) ==
    LET field_norm == normalize_material_text(expand_synonyms(field))
    IN  [field_norm    |-> field_norm,
         field_numbers |-> extract_numbers_with_units(field_norm),
         field_tokens  |-> Range(Split(field_norm))]

\* Lines 248-269 for one field, given the ratio the fuzzy library returns
\* for it.
FieldScore(desc, field, ratio) ==
    LET fuzzy    == FuzzyScore(ratio)
        numeric  == NumericScore(desc.desc_numbers, field.field_numbers)
        semantic == SemanticScore(desc.desc_category, field.field_tokens)
    IN  [fuzzy_score    |-> fuzzy,
         numeric_score  |-> numeric,
         semantic_score |-> semantic,
         total_score    |-> ClampTotal(WeightedSum(fuzzy, semantic, numeric))]

-----------------------------------------------------------------------------
(* The process: two request threads.  "poll" runs poll_endpoint from line  *)
(* 378 on; "other" is a second request that reaches                        *)
(* fetch_materials_pricebook at the same time.                             *)

Threads == {"poll", "other"}

\* Python's None, for an identifier; identifiers are strings here.
None == "None"

\* The truth value of an identifier (lines 383 and 393-395): None is false,
\* an identifier the API issued is true.
Truthy(id) == id # None

\* The fields match_material compares, in the order of line 237.
FieldsOf(m) == <<m.displayName, m.code, m.description>>

\* materials_cache["cache_duration"], line 23: 3600 s, the unit of clock.
cache_duration == 1

NoFetch == [pc |-> "check", all_materials |-> 0, page |-> 0, ret |-> 0]

NoParse == [pc |-> "idle", lines |-> <<>>, materials |-> <<>>]

NoResult == [id |-> None, name |-> NoText, score |-> 0]

NoMatch ==
    [pc |-> "idle", description |-> <<>>, materials |-> 0,
     desc_norm |-> <<>>, desc_numbers |-> <<>>, desc_category |-> {},
     m |-> 0, field |-> 0, field_numbers |-> <<>>,
     fuzzy_score |-> 0, numeric_score |-> 0, semantic_score |-> 0,
     total_score |-> 0, best_field_score |-> 0,
     scored_matches |-> <<>>, result |-> NoResult]

NoPoll ==
    [pc |-> "idle", materials_text |-> <<>>, job_id |-> None,
     materials_data |-> 0, parsed_materials |-> <<>>, entry |-> 0,
     returned |-> <<>>, invoice_items |-> <<>>, patches |-> <<>>]

-----------------------------------------------------------------------------
(* fetch_materials_pricebook                                               *)

\* Time passes.
MaxClock == 2

Tick ==
    /\ clock < MaxClock
    /\ clock' = clock + 1
    /\ UNCHANGED <<textVars, pricebook, heap, materials_cache, fetch, poll, parse, match>>

\* Line 87: all_materials = [], a new list object.
NewList(h) == [heap |-> Append(h, <<>>), ref |-> Len(h) + 1]

\* Lines 81-88: the cached list while it is fresh, a new list otherwise.
FetchCheck(t) ==
    /\ fetch[t].pc = "check"
    /\ IF clock - materials_cache.last_updated < cache_duration
       THEN /\ fetch' = [fetch EXCEPT ![t].pc = "returned",
                                      ![t].ret = materials_cache.data]
            /\ UNCHANGED heap
       ELSE /\ heap' = NewList(heap).heap
            /\ fetch' = [fetch EXCEPT ![t].pc = "request",
                                      ![t].all_materials = NewList(heap).ref,
                                      ![t].page = 1]
    /\ UNCHANGED <<textVars, clock, pricebook, materials_cache, poll, parse, match>>

\* The answers the API can give to the request for a page (lines 92-96,
\* after the retry of a 401): an error status, or the page.
Responses(page) ==
    {[status |-> 500, data |-> <<>>, hasMore |-> FALSE],
     [status  |-> 200,
      data    |-> IF page <= Len(pricebook) THEN pricebook[page] ELSE <<>>,
      hasMore |-> page < Len(pricebook)]}

\* Line 104: all_materials.extend(items).
Extend(h, ref, items) == [h EXCEPT ![ref] = @ \o items]

\* Lines 90-107: one turn of the loop.
FetchPage(t) ==
    /\ fetch[t].pc = "request"
    /\ \E response \in Responses(fetch[t].page) :
         IF response.status # 200 \/ response.data = <<>>
         THEN /\ fetch' = [fetch EXCEPT ![t].pc = "publish"]
              /\ UNCHANGED heap
         ELSE /\ heap' = Extend(heap, fetch[t].all_materials, response.data)
              /\ fetch' = [fetch EXCEPT
                              ![t].pc   = IF response.hasMore THEN "request" ELSE "publish",
                              ![t].page = IF response.hasMore THEN @ + 1 ELSE @]
    /\ UNCHANGED <<textVars, clock, pricebook, materials_cache, poll, parse, match>>

\* Lines 86 and 92-96: get_token, fetch_new_token and requests.get can raise.
FetchRaise(t) ==
    /\ fetch[t].pc = "request"
    /\ fetch' = [fetch EXCEPT ![t].pc = "raised"]
    /\ UNCHANGED <<textVars, clock, pricebook, heap, materials_cache, poll, parse, match>>

\* Line 109 as a copy into the list the cache names, materials_cache["data"][:] =
\* all_materials, instead of a new binding.
PublishInPlace(h, cache, ref) ==
    [heap |-> [h EXCEPT ![cache.data] = h[ref]], cache |-> cache]

\* Line 109: materials_cache["data"] = all_materials.
Publish(h, cache, ref) ==
    [heap |-> h, cache |-> [cache EXCEPT !.data = ref]]

FetchPublish(t) ==
    /\ fetch[t].pc = "publish"
    /\ heap' = Publish(heap, materials_cache, fetch[t].all_materials).heap
    /\ materials_cache' = Publish(heap, materials_cache, fetch[t].all_materials).cache
    /\ fetch' = [fetch EXCEPT ![t].pc = "stamp"]
    /\ UNCHANGED <<textVars, clock, pricebook, poll, parse, match>>

\* Lines 110-112: last_updated, and the list is returned.
FetchReturn(t) ==
    /\ fetch[t].pc = "stamp"
    /\ materials_cache' = [materials_cache EXCEPT !.last_updated = clock]
    /\ fetch' = [fetch EXCEPT ![t].pc = "returned", ![t].ret = fetch[t].all_materials]
    /\ UNCHANGED <<textVars, clock, pricebook, heap, poll, parse, match>>

-----------------------------------------------------------------------------
(* poll_endpoint, lines 378-379                                            *)

\* Line 378: fetch_materials_pricebook has returned.
PollFetched ==
    /\ poll.pc = "fetch"
    /\ fetch["poll"].pc = "returned"
    /\ poll' = [poll EXCEPT !.pc = "parse", !.materials_data = fetch["poll"].ret]
    /\ UNCHANGED <<textVars, clock, pricebook, heap, materials_cache, fetch, parse, match>>

\* Lines 400-402: it raised, and the request ends with a 500.
PollFetchFailed ==
    /\ poll.pc = "fetch"
    /\ fetch["poll"].pc = "raised"
    /\ poll' = [poll EXCEPT !.pc = "failed"]
    /\ UNCHANGED <<textVars, clock, pricebook, heap, materials_cache, fetch, parse, match>>

-----------------------------------------------------------------------------
(* parse_materials_text                                                    *)

\* Lines 144-148.
ParseBegin ==
    /\ poll.pc = "parse"
    /\ parse.pc = "idle"
    /\ parse' = [pc        |-> "lines",
                 lines     |-> IF poll.materials_text = <<>> THEN <<>>
                               ELSE SplitLines(Strip(poll.materials_text)),
                 materials |-> <<>>]
    /\ UNCHANGED <<textVars, clock, pricebook, heap, materials_cache, fetch, poll, match>>

\* Lines 149-151 skipping also the lines of neither shape.
IsBlankOrPlain(raw_line) ==
    \/ Strip(raw_line) = <<>>
    \/ ~ExplicitCountMatches(Strip(raw_line)) /\ MeasureUnit(Strip(raw_line)) = 0

\* Lines 149-151: a line is skipped when nothing is left of it.
IsBlank(raw_line) == Strip(raw_line) = <<>>

SkipBlankLine ==
    /\ parse.pc = "lines"
    /\ parse.lines # <<>>
    /\ IsBlank(Head(parse.lines))
    /\ parse' = [parse EXCEPT !.lines = Tail(@)]
    /\ UNCHANGED <<textVars, clock, pricebook, heap, materials_cache, fetch, poll, match>>

\* Lines 153-175: any other line adds one entry.
ParseLine ==
    /\ parse.pc = "lines"
    /\ parse.lines # <<>>
    /\ ~IsBlank(Head(parse.lines))
    /\ parse' = [parse EXCEPT !.lines = Tail(@),
                              !.materials = Append(@, LineEntry(Strip(Head(parse.lines))))]
    /\ UNCHANGED <<textVars, clock, pricebook, heap, materials_cache, fetch, poll, match>>

\* Lines 177 and 379-380: the entries are returned to the poll.
ParseReturn ==
    /\ parse.pc = "lines"
    /\ parse.lines = <<>>
    /\ parse' = [parse EXCEPT !.pc = "returned"]
    /\ poll' = [poll EXCEPT !.pc = "match", !.parsed_materials = parse.materials,
                            !.entry = 1, !.invoice_items = <<>>]
    /\ UNCHANGED <<textVars, clock, pricebook, heap, materials_cache, fetch, match>>

-----------------------------------------------------------------------------
(* The items and the texts the model runs on.                              *)

Item(id, displayName, code, description) ==
    [id |-> id, displayName |-> displayName, code |-> code, description |-> description]

CatalogItems == {
    Item("sku1", <<"6", "i", "n", " ", "e", "l", "b", "o", "w">>, <<>>, <<>>),
    Item("sku2", <<"6", "f", "t", " ", "e", "l", "b", "o", "w">>, <<>>, <<>>),
    Item("sku3", <<"6", "i", "n", " ", "f", "l", "e", "x", " ", "e", "l", "b", "o", "w", " ", "w", "r", "a", "p">>, <<"F", "L", "E", "X", "-", "6", "I", "N">>, <<>>),
    Item("sku4", <<"0", "f", "t", " ", "w", "i", "r", "e">>, <<>>, <<>>),
    Item("sku5", <<>>, <<>>, <<>>) }

Descriptions == { <<"6", "i", "n", " ", "e", "l", "b", "o", "w">>, <<"6", "i", "n", " ", "d", "u", "c", "t", " ", "t", "a", "p", "e">>, <<"m", "i", "s", "c", " ", "s", "u", "p", "p", "l", "i", "e", "s">>,
                  <<"6", "i", "n", " ", "f", "l", "e", "x", " ", "e", "l", "b", "o", "w", " ", "w", "r", "a", "p", " ", "t", "a", "p", "e">>, <<"0", "i", "n", " ", "t", "a", "p", "e">>, <<"9", "i", "n", " ", "e", "l", "b", "o", "w">> }

PollItems == {
    Item("sku1", <<"6", "i", "n", " ", "e", "l", "b", "o", "w">>, <<>>, <<>>),
    Item("sku4", <<"0", "f", "t", " ", "w", "i", "r", "e">>, <<>>, <<>>) }

PollTexts == { <<"2", " ", "x", " ", "6", "i", "n", " ", "e", "l", "b", "o", "w", "\n", "\n", "m", "i", "s", "c">>, <<"0", "x", " ", "e", "l", "b", "o", "w">> }

\* The description of every entry the model matches, and the text of every
\* field it is matched against.
DescriptionTexts ==
    Descriptions \cup
    UNION {{LineEntry(Strip(l)).description :
                l \in {r \in Range(SplitLines(Strip(t))) : Strip(r) # <<>>}} : t \in PollTexts}

FieldTexts == UNION {Range(FieldsOf(i)) : i \in CatalogItems \cup PollItems} \ {<<>>}

\* DescFeatures and FieldFeatures of each of them, computed once.
DescTable == [d \in DescriptionTexts |-> DescFeatures(d)]

FieldTable == [f \in FieldTexts |-> FieldFeatures(f)]

-----------------------------------------------------------------------------
(* match_material                                                          *)

\* The ratios the fuzzy library can return for a field (lines 249-252): the
\* larger of fuzz.partial_ratio and fuzz.token_sort_ratio, a percentage.
FuzzyRatios == {0, 80, 100}

\* Line 382: the poll calls match_material for its next entry; lines
\* 201-212 and 231.
MatchBegin ==
    /\ poll.pc = "match"
    /\ match.pc = "idle"
    /\ poll.entry <= Len(poll.parsed_materials)
    /\ LET description == poll.parsed_materials[poll.entry].description
           desc        == DescTable[description]
       IN  match' = [NoMatch EXCEPT
                        !.pc            = "items",
                        !.description   = description,
                        !.materials     = poll.materials_data,
                        !.desc_norm     = desc.desc_norm,
                        !.desc_numbers  = desc.desc_numbers,
                        !.desc_category = desc.desc_category,
                        !.m             = 0]
    /\ UNCHANGED <<textVars, clock, pricebook, heap, materials_cache, fetch, poll, parse>>

\* Lines 233-239: the loop takes the next item of the list, if one is left.
NextItem ==
    /\ match.pc = "items"
    /\ match.m < Len(heap[match.materials])
    /\ match' = [match EXCEPT !.pc = "fields", !.m = @ + 1, !.field = 1,
                              !.best_field_score = 0]
    /\ UNCHANGED <<textVars, clock, pricebook, heap, materials_cache, fetch, poll, parse>>

\* Lines 241-242: an empty field is passed over.
SkipField ==
    /\ match.pc = "fields"
    /\ match.field <= Len(FieldsOf(heap[match.materials][match.m]))
    /\ FieldsOf(heap[match.materials][match.m])[match.field] = <<>>
    /\ match' = [match EXCEPT !.field = @ + 1]
    /\ UNCHANGED <<textVars, clock, pricebook, heap, materials_cache, fetch, poll, parse>>

\* Line 271.
BestOf(best_field_score, total_score) == Max(best_field_score, total_score)

\* Lines 243-271: a field is scored.
ScoreField ==
    /\ match.pc = "fields"
    /\ match.field <= Len(FieldsOf(heap[match.materials][match.m]))
    /\ FieldsOf(heap[match.materials][match.m])[match.field] # <<>>
    /\ \E ratio \in FuzzyRatios :
         LET field == FieldTable[FieldsOf(heap[match.materials][match.m])[match.field]]
             score == FieldScore(match, field, ratio)
         IN  match' = [match EXCEPT
                          !.field            = @ + 1,
                          !.field_numbers    = field.field_numbers,
                          !.fuzzy_score      = score.fuzzy_score,
                          !.numeric_score    = score.numeric_score,
                          !.semantic_score   = score.semantic_score,
                          !.total_score      = score.total_score,
                          !.best_field_score = BestOf(@, score.total_score)]
    /\ UNCHANGED <<textVars, clock, pricebook, heap, materials_cache, fetch, poll, parse>>

\* Lines 273-278: after its last field the item is recorded, if it scored.
RecordItem ==
    /\ match.pc = "fields"
    /\ match.field > Len(FieldsOf(heap[match.materials][match.m]))
    /\ LET item == heap[match.materials][match.m]
       IN  match' = [match EXCEPT
                        !.pc = "items",
                        !.scored_matches =
                            IF match.best_field_score > 0
                            THEN Append(@, [id    |-> item.id,
                                            name  |-> item.displayName,
                                            score |-> match.best_field_score])
                            ELSE @]
    /\ UNCHANGED <<textVars, clock, pricebook, heap, materials_cache, fetch, poll, parse>>

\* The sort of line 280 without reverse=True: the lowest score first.
RECURSIVE SortByScoreAscending(_)
SortByScoreAscending(ms) ==
    IF ms = <<>> THEN <<>>
    ELSE LET rest == SortByScoreAscending(Tail(ms))
         IN  SelectSeq(rest, LAMBDA x : x.score < Head(ms).score)
                \o <<Head(ms)>>
                \o SelectSeq(rest, LAMBDA x : x.score >= Head(ms).score)

\* Line 280: list.sort(key=score, reverse=True), which keeps the order of
\* equal scores.
RECURSIVE SortByScore(_)
SortByScore(ms) ==
    IF ms = <<>> THEN <<>>
    ELSE LET rest == SortByScore(Tail(ms))
         IN  SelectSeq(rest, LAMBDA x : x.score > Head(ms).score)
                \o <<Head(ms)>>
                \o SelectSeq(rest, LAMBDA x : x.score <= Head(ms).score)

\* Line 281: scored_matches[:3].
TopMatches(ms) == SubSeq(ms, 1, Min(TopCount, Len(ms)))

\* Line 288: the confidence gate.
Accepted(score) == score >= ConfidenceThreshold

\* Lines 280-288: the items are ranked and the best one is returned, if it
\* is good enough.
Rank ==
    /\ match.pc = "items"
    /\ match.m >= Len(heap[match.materials])
    /\ LET sorted      == SortByScore(match.scored_matches)
           top_matches == TopMatches(sorted)
           best        == IF top_matches # <<>> THEN top_matches[1] ELSE NoResult
       IN  match' = [match EXCEPT
                        !.pc = "returned",
                        !.scored_matches = sorted,
                        !.result = IF Accepted(best.score) THEN best ELSE NoResult]
    /\ UNCHANGED <<textVars, clock, pricebook, heap, materials_cache, fetch, poll, parse>>

-----------------------------------------------------------------------------
(* poll_endpoint, lines 381-398, and add_materials_to_invoice              *)

\* Lines 385-389 with a quantity of 1 for every line item.
InvoiceItemOfOne(m, sku_id, name) ==
    [skuId |-> sku_id, quantity |-> 1, description |-> name]

\* Lines 385-389.
InvoiceItem(m, sku_id, name) ==
    [skuId |-> sku_id, quantity |-> m.quantity, description |-> name]

\* Lines 382-391: the result of one entry; a line item is added for a match.
PollMatched ==
    /\ poll.pc = "match"
    /\ match.pc = "returned"
    /\ poll' = [poll EXCEPT
                   !.entry = @ + 1,
                   !.returned = Append(@, match.result),
                   !.invoice_items =
                       IF Truthy(match.result.id)
                       THEN Append(@, InvoiceItem(poll.parsed_materials[poll.entry],
                                                  match.result.id, match.result.name))
                       ELSE @]
    /\ match' = [match EXCEPT !.pc = "idle"]
    /\ UNCHANGED <<textVars, clock, pricebook, heap, materials_cache, fetch, parse>>

\* Line 381: the loop ends after the last entry.
PollEntriesDone ==
    /\ poll.pc = "match"
    /\ match.pc = "idle"
    /\ poll.entry > Len(poll.parsed_materials)
    /\ poll' = [poll EXCEPT !.pc = "write"]
    /\ UNCHANGED <<textVars, clock, pricebook, heap, materials_cache, fetch, parse, match>>

\* Lines 317-320: the payload of the PATCH.
Payload(materials) ==
    [i \in 1..Len(materials) |->
        [skuId       |-> materials[i].skuId,
         quantity    |-> materials[i].quantity,
         description |-> materials[i].description]]

\* What get_invoice_id_from_job can return (lines 293-308).
InvoiceIds == {None, "invoice"}

\* Lines 393-398: the line items are sent when the form has a job, there is
\* a line item and the job has an invoice; the PATCH is sent again after a
\* 401 (lines 321-325).
PollWrite ==
    /\ poll.pc = "write"
    /\ \E invoice_id \in InvoiceIds, again \in BOOLEAN :
         poll' = [poll EXCEPT
                     !.pc = "done",
                     !.patches =
                         IF Truthy(poll.job_id) /\ poll.invoice_items # <<>> /\ Truthy(invoice_id)
                         THEN IF again
                              THEN <<Payload(poll.invoice_items), Payload(poll.invoice_items)>>
                              ELSE <<Payload(poll.invoice_items)>>
                         ELSE <<>>]
    /\ UNCHANGED <<textVars, clock, pricebook, heap, materials_cache, fetch, parse, match>>

-----------------------------------------------------------------------------
(* The text helpers applied on their own to every text made of a few       *)
(* chunks.                                                                 *)

TextChunks == { <<"f", "l", "e", "x">>, <<"i", "b", "l", "e">>, <<"9", "0">>, <<"1">>, <<" ">>, <<"i", "n", "c", "h">>, <<"c", "h">>,
                <<"\"">>, <<".">>, <<"p", "e", "r">>, <<"W", "r", "a", "p">> }

MaxChunks == 3

\* The texts made of at most n of the chunks.
RECURSIVE TextsOf(_, _)
TextsOf(chunks, n) ==
    IF n = 0 THEN {<<>>}
    ELSE LET shorter == TextsOf(chunks, n - 1)
         IN  shorter \cup {t \o c : t \in shorter, c \in chunks}

\* The process before any request.
ProcessIdle ==
    /\ clock = cache_duration
    /\ pricebook = <<>>
    /\ heap = << <<>> >>
    /\ materials_cache = [data |-> 1, last_updated |-> 0]
    /\ fetch = [t \in Threads |-> NoFetch]
    /\ poll = NoPoll
    /\ parse = NoParse
    /\ match = NoMatch

TextInit ==
    /\ text \in TextsOf(TextChunks, MaxChunks)
    /\ normalized = NoText
    /\ renormalized = NoText
    /\ expanded = NoText
    /\ ProcessIdle

Normalize ==
    /\ normalized = NoText
    /\ normalized' = normalize_material_text(text)
    /\ UNCHANGED <<text, renormalized, expanded, processVars>>

Renormalize ==
    /\ normalized # NoText
    /\ renormalized = NoText
    /\ renormalized' = normalize_material_text(normalized)
    /\ UNCHANGED <<text, normalized, expanded, processVars>>

Expand ==
    /\ expanded = NoText
    /\ expanded' = expand_synonyms(text)
    /\ UNCHANGED <<text, normalized, renormalized, processVars>>

TextNext == Normalize \/ Renormalize \/ Expand

SpecText == TextInit /\ [][TextNext]_vars

\* The text helpers are not applied on their own.
TextIdle ==
    /\ text = NoText
    /\ normalized = NoText
    /\ renormalized = NoText
    /\ expanded = NoText

-----------------------------------------------------------------------------
(* parse_materials_text on every text made of a few pieces.                *)

ParsePieces == { <<"3">>, <<"0">>, <<"x", "a">>, <<"-">>, <<" ">>, <<"\n">>, <<"\n", "\n">>, <<"f", "t">>, <<"a">> }

MaxPieces == 4

\* A list that was fetched and cached before: list 2 of the heap.
Fetched(catalog) ==
    /\ clock = cache_duration
    /\ pricebook = IF catalog = <<>> THEN <<>> ELSE <<catalog>>
    /\ heap = << <<>>, catalog >>
    /\ materials_cache = [data |-> 2, last_updated |-> cache_duration]
    /\ fetch = [t \in Threads |-> [pc |-> "returned", all_materials |-> 2, page |-> 1, ret |-> 2]]

ParseInit ==
    /\ TextIdle
    /\ Fetched(<<>>)
    /\ \E t \in TextsOf(ParsePieces, MaxPieces) :
         poll = [NoPoll EXCEPT !.pc = "parse", !.materials_text = t, !.materials_data = 2]
    /\ parse = NoParse
    /\ match = NoMatch

ParseNext == ParseBegin \/ SkipBlankLine \/ ParseLine \/ ParseReturn

SpecParse == ParseInit /\ [][ParseNext]_vars

-----------------------------------------------------------------------------
(* match_material for one description against every small catalog.         *)

MaxItems == 2

\* The lists of at most n different items.
RECURSIVE Catalogs(_, _)
Catalogs(items, n) ==
    IF n = 0 THEN {<<>>}
    ELSE LET shorter == Catalogs(items, n - 1)
             longer  == UNION {{Append(c, i) : i \in items \ Range(c)} : c \in shorter}
         IN  shorter \cup longer

MatchInit ==
    /\ TextIdle
    /\ \E catalog \in Catalogs(CatalogItems, MaxItems) : Fetched(catalog)
    /\ \E d \in Descriptions :
         poll = [NoPoll EXCEPT !.pc = "match", !.materials_text = d,
                               !.materials_data = 2,
                               !.parsed_materials = <<LineEntry(d)>>, !.entry = 1]
    /\ parse = [NoParse EXCEPT !.pc = "returned"]
    /\ match = NoMatch

MatchNext ==
    \/ MatchBegin \/ NextItem \/ SkipField \/ ScoreField \/ RecordItem \/ Rank
    \/ PollMatched

SpecMatch == MatchInit /\ [][MatchNext]_vars

-----------------------------------------------------------------------------
(* The poll of a form while a second request fetches the pricebook.        *)

JobIds == {None, "job"}

\* The pages of a catalog, size items to a page.
RECURSIVE Pages(_, _)
Pages(catalog, size) ==
    IF Len(catalog) <= size THEN (IF catalog = <<>> THEN <<>> ELSE <<catalog>>)
    ELSE <<SubSeq(catalog, 1, size)>> \o Pages(SubSeq(catalog, size + 1, Len(catalog)), size)

PollInit ==
    /\ TextIdle
    /\ clock = cache_duration
    /\ \E catalog \in Catalogs(PollItems, MaxItems), size \in 1..MaxItems :
         pricebook = Pages(catalog, size)
    /\ heap = << <<>> >>
    /\ materials_cache = [data |-> 1, last_updated |-> 0]
    /\ fetch = [t \in Threads |-> NoFetch]
    /\ \E t \in PollTexts, j \in JobIds :
         poll = [NoPoll EXCEPT !.pc = "fetch", !.materials_text = t, !.job_id = j]
    /\ parse = NoParse
    /\ match = NoMatch

PollNext ==
    \/ Tick
    \/ \E t \in Threads : FetchCheck(t) \/ FetchPage(t) \/ FetchRaise(t)
                              \/ FetchPublish(t) \/ FetchReturn(t)
    \/ PollFetched \/ PollFetchFailed
    \/ ParseBegin \/ SkipBlankLine \/ ParseLine \/ ParseReturn
    \/ MatchBegin \/ NextItem \/ SkipField \/ ScoreField \/ RecordItem \/ Rank
    \/ PollMatched \/ PollEntriesDone \/ PollWrite

SpecPoll == PollInit /\ [][PollNext]_vars

-----------------------------------------------------------------------------
(* The claims.                                                             *)

(* C1: match_material returns an item id exactly when the best score of    *)
(* any scored item reaches the confidence threshold, and then it is the    *)
(* score it returns; below the threshold, or with no item scored, it       *)
(* returns (None, None, 0).                                                *)
TopScore(ms) ==
    LET scores == {ms[i].score : i \in DOMAIN ms} \cup {0}
    IN  CHOOSE s \in scores : \A q \in scores : s >= q

ThresholdGate ==
    match.pc = "returned" =>
        LET top == TopScore(match.scored_matches)
        IN  /\ match.result.id # None <=> top >= ConfidenceThreshold
            /\ top >= ConfidenceThreshold =>
                   /\ match.result.score = top
                   /\ \E i \in DOMAIN match.scored_matches :
                          /\ match.scored_matches[i].id = match.result.id
                          /\ match.scored_matches[i].score = top
            /\ top < ConfidenceThreshold => match.result = NoResult

\* An item is returned though another one scored lower.
ThresholdGateWitness ==
    /\ match.pc = "returned"
    /\ match.result.id # None
    /\ \E i \in DOMAIN match.scored_matches :
           match.scored_matches[i].score < match.result.score

(* C2: the score of an item, as recorded for it and as returned, is        *)
(* between 0 and 1.                                                        *)
ScoreBounded ==
    /\ match.best_field_score \in 0..Scale
    /\ \A i \in DOMAIN match.scored_matches : match.scored_matches[i].score \in 0..Scale
    /\ match.result.score \in 0..Scale

\* A field whose weighted sum is more than 1 has been scored, and the best
\* score of its item is 1.
ScoreBoundedWitness ==
    /\ match.pc = "fields"
    /\ WeightedSum(match.fuzzy_score, match.semantic_score, match.numeric_score) > Scale
    /\ match.total_score = Scale
    /\ match.best_field_score = Scale

(* C3: every entry parse_materials_text returns has a quantity of at least *)
(* 1.                                                                      *)
QuantityPositive ==
    \A i \in DOMAIN parse.materials : parse.materials[i].quantity >= 1

(* C4: parse_materials_text returns one entry for each line that is not    *)
(* blank, in the order of the lines: the description of the i-th entry is  *)
(* the end of the i-th such line, and a line of neither shape gives        *)
(* quantity 1 and the whole trimmed line.                                  *)
NonBlankLines(t) ==
    LET raw == IF t = <<>> THEN <<>> ELSE SplitLines(Strip(t))
    IN  SelectSeq([i \in DOMAIN raw |-> Strip(raw[i])], LAMBDA l : l # <<>>)

NoSpaces(s) == SelectSeq(s, LAMBDA c : ~IsSpace(c))

IsSuffix(a, b) == Len(a) <= Len(b) /\ SubSeq(b, Len(b) - Len(a) + 1, Len(b)) = a

OneEntryPerLine ==
    parse.pc = "returned" =>
        LET lines == NonBlankLines(poll.materials_text)
        IN  /\ Len(parse.materials) = Len(lines)
            /\ poll.parsed_materials = parse.materials
            /\ \A i \in DOMAIN lines :
                   /\ parse.materials[i].description # <<>>
                   /\ IsSuffix(NoSpaces(parse.materials[i].description), NoSpaces(lines[i]))
                   /\ (~ExplicitCountMatches(lines[i]) /\ MeasureUnit(lines[i]) = 0) =>
                          parse.materials[i] = [quantity |-> 1, description |-> lines[i]]

\* Two different entries from a text with a blank line between them, the
\* second from a line of neither shape.
OneEntryPerLineWitness ==
    /\ parse.pc = "returned"
    /\ Len(parse.materials) = 2
    /\ parse.materials[1].description # parse.materials[2].description
    /\ Len(SplitLines(Strip(poll.materials_text))) = 3
    /\ ~ExplicitCountMatches(parse.materials[2].description)
    /\ parse.materials[1].quantity > 1

(* C5: normalize_material_text is idempotent: normalizing a normalized     *)
(* text changes nothing.                                                   *)
NormalizeIdempotent ==
    renormalized # NoText => renormalized = normalized

(* C6: the line items of every PATCH are the entries whose match returned  *)
(* an item id, in the order of the entries, each with that id, an id of    *)
(* the catalog, as skuId and with the quantity of its entry.               *)
RECURSIVE MatchedLines(_, _, _)
MatchedLines(entries, results, i) ==
    IF i > Len(entries) THEN <<>>
    ELSE (IF results[i].id # None
          THEN <<[skuId |-> results[i].id, quantity |-> entries[i].quantity]>>
          ELSE <<>>) \o MatchedLines(entries, results, i + 1)

WholeWordKeyIn(s) ==
    \E k \in 1..Len(SYNONYMS) : \E i \in 1..Len(s) :
        /\ MatchAtCI(s, i, SYNONYMS[k].key)
        /\ WordBoundary(s, i)
        /\ WordBoundary(s, i + Len(SYNONYMS[k].key))

ExpandOnlyWholeWords ==
    (expanded # NoText /\ ~WholeWordKeyIn(text)) => expanded = text

(* C8: the numeric score of a field compares only tokens of the same unit: *)
(* it is 0 when no token of the description has the unit of a token of the *)
(* field.                                                                  *)
UnitOf(token) == SelectSeq(token, LAMBDA c : ~IsDigit(c) /\ c # ".")

NumericSameUnitOnly ==
    (/\ match.pc = "fields"
     /\ match.desc_numbers # <<>>
     /\ match.field_numbers # <<>>
     /\ \A i \in DOMAIN match.desc_numbers, j \in DOMAIN match.field_numbers :
            UnitOf(match.desc_numbers[i]) # UnitOf(match.field_numbers[j]))
        => match.numeric_score = 0

(* C9: the fuzzy, numeric and semantic scores of a field and its total are *)
(* each between 0 and 1 where they are combined.                           *)
ComponentsBounded ==
    /\ match.fuzzy_score \in 0..Scale
    /\ match.numeric_score \in 0..Scale
    /\ match.semantic_score \in 0..Scale
    /\ match.total_score \in 0..Scale

(* C10: the list the matching pass holds is not modified while the pass    *)
(* runs, whatever a refresh does meanwhile; the list the cache names is    *)
(* never modified and never one that a refresh is still filling.           *)
CatalogSwappedWhole ==
    /\ [](\A t \in Threads :
             fetch[t].pc = "request" => materials_cache.data # fetch[t].all_materials)
    /\ [][/\ poll.pc \in {"parse", "match"} =>
                heap'[poll.materials_data] = heap[poll.materials_data]
          /\ heap'[materials_cache.data] = heap[materials_cache.data]]_vars

\* The pass is at its second entry with a list that the cache no longer
\* names, and the two lists differ.
CatalogSwappedWholeWitness ==
    /\ poll.pc = "match"
    /\ poll.entry = 2
    /\ match.pc = "fields"
    /\ materials_cache.data # poll.materials_data
    /\ heap[materials_cache.data] # heap[poll.materials_data]

=============================================================================
